---- MODULE Spec2Model ----
(***************************************************************************)
(* Latest Rating Service (script.service.latestrating): the scheduling     *)
(* gate of service.py, the per-source rate limiter of rate_limiter.py and  *)
(* the selection / fetch / aggregate / write loop of rating_updater.py.    *)
(*                                                                         *)
(* Units.  A rating is an integer number of hundredths when it is a        *)
(* provider sample or a rating stored in the library (7.94 is 794), and an *)
(* integer number of tenths once round(x, 1) has been applied (7.9 is 79). *)
(* Time is an integer number of ticks, TicksPerSecond ticks to a second.   *)
(* Python's None is the empty sequence and a float f is <<f>> wherever a   *)
(* value may be None.                                                      *)
(***************************************************************************)
EXTENDS Integers, Sequences, FiniteSets, TLC

VARIABLES
    pc,            \* position of the process: which step runs next
    now,           \* datetime.now(), in ticks
    settings,      \* the addon settings (xbmcaddon.Addon().getSetting*)
    library,       \* the Kodi video library behind the JSON-RPC interface
    rating_sources,\* RatingUpdater.rating_sources
    calls,         \* RateLimiter.calls of the two limiters, keyed by source
    items,         \* the list the running pass iterates over
    idx,           \* index of the next item of that list
    locals,        \* show_title / season / episode_num of update_tvshow_episodes
    responses,     \* pure-function specifications: the provider answers drawn
    result,        \* pure-function specifications: the value returned
    requests,      \* history: requests issued, per source
    commands,      \* history: library update commands issued
    log            \* history: log entries and completion writes of interest

vars == <<pc, now, settings, library, rating_sources, calls, items, idx,
          locals, responses, result, requests, commands, log>>

(***************************************************************************)
(* Bounds of the model.                                                    *)
(***************************************************************************)
TicksPerSecond == 4
MaxVotes == 3
MaxFetches == 3
MaxElapse == 6
MaxInterval == 3
MaxLatency == 1
MaxItems == 2

(***************************************************************************)
(* Program constants.                                                      *)
(***************************************************************************)
IMDB_RATE_LIMIT == 2
TRAKT_RATE_LIMIT == 2

Sources == {"imdb", "trakt"}

None == <<>>
Some(x) == <<x>>

Range(seq) == {seq[i] : i \in 1 .. Len(seq)}

RateLimit(source) == IF source = "imdb" THEN IMDB_RATE_LIMIT ELSE TRAKT_RATE_LIMIT

(***************************************************************************)
(* round(x, 1) of a non-negative double x = num / den.  Python rounds the  *)
(* exact binary value of x to the nearest decimal with one digit.  A       *)
(* quotient that is not a decimal tie k.k5 is settled by the exact         *)
(* quotient.  At a tie n/20 (n odd) the double nearest n/20 lies above or  *)
(* below the tie (or on it, for k.25 and k.75, where round goes to the     *)
(* even digit): TieRoundsUp lists the n for which round goes up.  On the   *)
(* sample domain of this model the quotient computed in double precision   *)
(* is the double nearest the exact quotient.                               *)
(***************************************************************************)
TieRoundsUp ==
    {1, 9, 11, 13, 15, 21, 27, 31, 35, 37, 47, 49, 55, 57, 59, 67, 69, 75,
     77, 79, 83, 89, 93, 95, 99, 103, 109, 113, 115, 119, 123, 129, 133,
     135, 139, 143, 149, 153, 155, 159, 161, 163, 171, 173, 175, 181, 183,
     191, 193, 195}

Round1(num, den) ==
    LET q == (10 * num) \div den
        r == (10 * num) % den
    IN  IF 2 * r < den THEN q
        ELSE IF 2 * r > den THEN q + 1
        ELSE IF (2 * q + 1) \in TieRoundsUp THEN q + 1 ELSE q

(***************************************************************************)
(* What a provider answers to one request.                                 *)
(*   network     requests.get raises a RequestException                    *)
(*   http        raise_for_status raises on a non-2xx status               *)
(*   unparseable the body is no JSON (JSONDecodeError)                     *)
(*   nodata      no ld+json block, or rating / votes absent                *)
(*   badvalue    rating and votes present, float() / int() raise           *)
(*               ValueError                                                *)
(*   badtype     rating and votes present, float() / int() raise TypeError *)
(*   ok          rating and votes present and convertible                  *)
(***************************************************************************)
FailureKinds == {"network", "http", "unparseable", "nodata", "badvalue", "badtype"}

SampleRatings == {-100, 0, 4, 600, 725, 790, 800, 850}
SampleVotes == (-1 .. MaxVotes) \cup {50, 100, 1000}

Failure(k) == [kind |-> k, rating |-> -100, votes |-> -1]
Sample(r, v) == [kind |-> "ok", rating |-> r, votes |-> v]

Responses ==
    {Failure(k) : k \in FailureKinds}
        \cup {Sample(r, v) : r \in SampleRatings, v \in SampleVotes}

NoDataCounted == [raised |-> FALSE, rating |-> 1000, votes |-> 1]

\* return -1, -1
NoData == [raised |-> FALSE, rating |-> -100, votes |-> -1]
Raised == [raised |-> TRUE, rating |-> -100, votes |-> -1]

(***************************************************************************)
(* rate_limiter.py.  calls is the dict of a RateLimiter: a function whose  *)
(* domain is the set of sources seen so far, each mapped to its deque of   *)
(* timestamps (oldest first).                                              *)
(***************************************************************************)
\* deque(maxlen = n).append(t)
Append_maxlen(q, t, n) ==
    IF n = 0 THEN q
    ELSE IF Len(q) >= n THEN Append(Tail(q), t)
    ELSE Append(q, t)

\* while q and (t - q[0]) > timedelta(seconds=1): q.popleft()
RECURSIVE DropOld(_, _)
DropOld(q, t) ==
    IF q # <<>> /\ t - Head(q) > TicksPerSecond THEN DropOld(Tail(q), t) ELSE q

wait_for_tokenFullSecond(c, source, t) ==
    IF source \notin DOMAIN c
    THEN [calls |-> [s \in DOMAIN c \cup {source} |->
                        IF s = source
                        THEN Append_maxlen(<<>>, t, RateLimit(source))
                        ELSE c[s]],
          now   |-> t]
    ELSE LET q == DropOld(c[source], t)
         IN  [calls |-> [c EXCEPT ![source] = q],
              now   |-> IF Len(q) >= RateLimit(source) /\ q # <<>>
                        THEN t + TicksPerSecond ELSE t]

\* RateLimiter.wait_for_token entered at time t: the dict after the call and
\* the time at which the call returns.
wait_for_token(c, source, t) ==
    IF source \notin DOMAIN c
    THEN [calls |-> [s \in DOMAIN c \cup {source} |->
                        IF s = source
                        THEN Append_maxlen(<<>>, t, RateLimit(source))
                        ELSE c[s]],
          now   |-> t]
    ELSE LET q == DropOld(c[source], t)
             wait_time == IF Len(q) >= RateLimit(source) /\ q # <<>>
                          THEN TicksPerSecond - (t - Head(q))
                          ELSE 0
         IN  [calls |-> [c EXCEPT ![source] = q],
              now   |-> IF wait_time > 0 THEN t + wait_time ELSE t]

\* RateLimiter.add_call at time t
add_call(c, source, t) ==
    [s \in DOMAIN c \cup {source} |->
        IF s = source
        THEN Append_maxlen(IF source \in DOMAIN c THEN c[source] ELSE <<>>,
                           t, RateLimit(source))
        ELSE c[s]]

(***************************************************************************)
(* rating_updater.py: the provider clients.  what is the item looked up:   *)
(* [item, is_movie, imdbnumber, show_imdbnumber, season, episode], season  *)
(* and episode being None or Some(n); for a movie both ids are its IMDb    *)
(* id.  item names the library item the caller is processing and is        *)
(* carried into the record of the request.                                 *)
(* resp is the provider's answer and lat the time the request takes.       *)
(* Each client returns [ret, calls, now, req]: the value returned (or the  *)
(* exception raised), the limiter dict, the time of return and the record  *)
(* of the request it issued.                                               *)
(***************************************************************************)
TruthyNotNone(x) == x # None

Truthy(x) == x # None /\ x[1] # 0

TraktEndpoint(what) ==
    IF what.is_movie THEN "movie"
    ELSE IF Truthy(what.season) /\ Truthy(what.episode) THEN "episode"
    ELSE "show"

RecordsCall(resp) == resp.kind \in {"ok", "badvalue", "badtype"}

Client(source, endpoint, what, id, resp, lat, c, t) ==
    LET w    == wait_for_token(c, source, t)
        done == w.now + lat
    IN  [ret   |-> IF resp.kind = "ok"
                   THEN [raised |-> FALSE, rating |-> resp.rating, votes |-> resp.votes]
                   ELSE IF resp.kind = "badtype" THEN Raised
                   ELSE NoData,
         calls |-> IF RecordsCall(resp) THEN add_call(w.calls, source, done)
                   ELSE w.calls,
         now   |-> done,
         req   |-> [source |-> source, endpoint |-> endpoint, id |-> id,
                    item |-> what.item,
                    enter |-> t,
                    at |-> w.now, done |-> done, kind |-> resp.kind]]

_fetch_imdb_rating(what, resp, lat, c, t) ==
    Client("imdb", "title", what, what.imdbnumber, resp, lat, c, t)

_fetch_trakt_rating(what, resp, lat, c, t) ==
    Client("trakt", TraktEndpoint(what), what, what.show_imdbnumber, resp, lat, c, t)

_fetch_rating_from_source(source, what, resp, lat, c, t) ==
    IF source = "imdb" THEN _fetch_imdb_rating(what, resp, lat, c, t)
    ELSE _fetch_trakt_rating(what, resp, lat, c, t)

(***************************************************************************)
(* RatingUpdater._fetch_rating: the loop over rating_sources.  resp and    *)
(* lat are functions of the source.  st carries total_rating_sum (in       *)
(* hundredths), total_vote_count, the limiter dict, the time and the       *)
(* requests issued so far.                                                 *)
(***************************************************************************)
ContributesNonNegative(ret) == ~ret.raised /\ ret.rating >= 0 /\ ret.votes > 0

\* if rating_value > 0 and vote_count > 0
Contributes(ret) == ~ret.raised /\ ret.rating > 0 /\ ret.votes > 0

WeightedUnweighted(rating, votes) == rating

\* rating_value * vote_count
Weighted(rating, votes) == rating * votes

RECURSIVE FetchLoop(_, _, _, _, _)
FetchLoop(srcs, what, resp, lat, st) ==
    IF srcs = <<>> THEN st
    ELSE LET source == Head(srcs)
             f == _fetch_rating_from_source(source, what, resp[source],
                                            lat[source], st.calls, st.now)
             valid == Contributes(f.ret)
         IN  FetchLoop(Tail(srcs), what, resp, lat,
                 [sum   |-> IF valid THEN st.sum + Weighted(f.ret.rating, f.ret.votes)
                            ELSE st.sum,
                  count |-> IF valid THEN st.count + f.ret.votes ELSE st.count,
                  calls |-> f.calls,
                  now   |-> f.now,
                  reqs  |-> Append(st.reqs, f.req)])

AverageZero(sum, count) ==
    IF count = 0 THEN Some(0) ELSE Some(Round1(sum, 100 * count))

\* None when total_vote_count == 0, else round(total_rating_sum / total_vote_count, 1)
Average(sum, count) ==
    IF count = 0 THEN None ELSE Some(Round1(sum, 100 * count))

_fetch_rating(srcs, what, resp, lat, c, t) ==
    LET st == FetchLoop(srcs, what, resp, lat,
                        [sum |-> 0, count |-> 0, calls |-> c, now |-> t,
                         reqs |-> <<>>])
    IN  [value |-> Average(st.sum, st.count),
         calls |-> st.calls,
         now   |-> st.now,
         reqs  |-> st.reqs]

(***************************************************************************)
(* Values of the variables a specification does not use.                   *)
(***************************************************************************)
NoCompletion == [kind |-> "empty", t |-> 0]

DefaultSettings ==
    [use_imdb |-> TRUE, use_trakt |-> TRUE,
     update_movies |-> TRUE, update_tvshows |-> TRUE,
     movie_years_back |-> 1, tvshow_months_back |-> 1,
     update_interval |-> 1, last_completion |-> NoCompletion]

EmptyLibrary == [movies |-> <<>>, tvshows |-> <<>>, episodes |-> <<>>]

NoLocals == [bound |-> FALSE, season |-> None, episode |-> None]

NoCalls == <<>>

SourceLists == {<<"imdb">>, <<"trakt">>, <<"imdb", "trakt">>}

AMovie == [item |-> <<"movie", 1>>, is_movie |-> TRUE, imdbnumber |-> "tt_m1",
           show_imdbnumber |-> "tt_m1", season |-> None, episode |-> None]

ZeroLatency == [s \in Sources |-> 0]

(***************************************************************************)
(* SpecAgg: _fetch_rating as a function of the enabled sources and of what *)
(* each provider answers.                                                  *)
(***************************************************************************)
InitAgg ==
    /\ pc = "fetch"
    /\ now = 0
    /\ settings = DefaultSettings
    /\ library = EmptyLibrary
    /\ rating_sources \in SourceLists
    /\ calls = NoCalls
    /\ items = <<>>
    /\ idx = 1
    /\ locals = NoLocals
    /\ responses \in [Sources -> Responses]
    /\ result = None
    /\ requests = <<>>
    /\ commands = <<>>
    /\ log = <<>>

FetchRating ==
    /\ pc = "fetch"
    /\ LET f == _fetch_rating(rating_sources, AMovie, responses, ZeroLatency,
                              calls, now)
       IN  /\ result' = f.value
           /\ calls' = f.calls
           /\ now' = f.now
           /\ requests' = requests \o f.reqs
    /\ pc' = "fetched"
    /\ UNCHANGED <<settings, library, rating_sources, items, idx, locals,
                   responses, commands, log>>

NextAgg == FetchRating

SpecAgg == InitAgg /\ [][NextAgg]_vars

(***************************************************************************)
(* The samples of a fetch, as a set: the sources enabled.                  *)
(***************************************************************************)
Enabled == {rating_sources[i] : i \in 1 .. Len(rating_sources)}

PassesFilter(s) ==
    /\ responses[s].kind = "ok"
    /\ responses[s].rating > 0
    /\ responses[s].votes > 0

Passing == {s \in Enabled : PassesFilter(s)}

RECURSIVE SumOf(_, _)
SumOf(S, f) ==
    IF S = {} THEN 0
    ELSE LET s == CHOOSE x \in S : TRUE IN f[s] + SumOf(S \ {s}, f)

RatingTimesVotes == [s \in Sources |-> responses[s].rating * responses[s].votes]
Votes == [s \in Sources |-> responses[s].votes]

\* r (tenths) is a multiple of 0.1 nearest to num / den (hundredths)
NearestTenth(r, num, den) ==
    /\ 10 * r * den - num <= 5 * den
    /\ num - 10 * r * den <= 5 * den

\* C6: _fetch_rating returns the vote-weighted mean of exactly the samples
\* with rating > 0 and votes > 0, rounded to one decimal place, and returns
\* None exactly when no sample passes that filter; the samples (8.0, 100)
\* and (6.0, 50) give 7.3.
C6_WeightedMean ==
    pc = "fetched" =>
        /\ (result = None) <=> (Passing = {})
        /\ Passing # {} =>
              /\ Len(result) = 1
              /\ NearestTenth(result[1], SumOf(Passing, RatingTimesVotes),
                              SumOf(Passing, Votes))
        /\ ( /\ rating_sources = <<"imdb", "trakt">>
             /\ responses["imdb"] = Sample(800, 100)
             /\ responses["trakt"] = Sample(600, 50) ) => result = Some(73)

C6_Witness ==
    /\ pc = "fetched"
    /\ rating_sources = <<"imdb", "trakt">>
    /\ responses["imdb"] = Sample(800, 100)
    /\ responses["trakt"] = Sample(600, 50)
    /\ result = Some(73)

SingleSample(lo) ==
    /\ pc = "fetched"
    /\ Len(rating_sources) = 1
    /\ responses[rating_sources[1]].kind = "ok"
    /\ responses[rating_sources[1]].rating >= lo
    /\ responses[rating_sources[1]].rating <= 1000
    /\ responses[rating_sources[1]].votes > 0

ReturnsTheSample ==
    /\ result # None
    /\ NearestTenth(result[1], responses[rating_sources[1]].rating, 1)

\* C8 as stated: for every single sample with rating r in 0.0 .. 10.0 and
\* votes v > 0 the aggregate is r rounded to one decimal place.
C8_Original == SingleSample(0) => ReturnsTheSample

\* C8 amended: for every single sample with rating r, 0.0 < r <= 10.0, and
\* votes v > 0 the aggregate is r rounded to one decimal place; a sample
\* with rating 0.0 gives no result.
C8_SingleSample ==
    /\ SingleSample(1) => ReturnsTheSample
    /\ (SingleSample(0) /\ responses[rating_sources[1]].rating = 0) => result = None

C8_Witness ==
    /\ SingleSample(1)
    /\ responses[rating_sources[1]] = Sample(725, 3)
    /\ result = Some(72)

\* the enabled sources whose fetch did not fail
Answered == {s \in Enabled : responses[s].kind = "ok"}

AnsweredPassing ==
    {s \in Answered : responses[s].rating > 0 /\ responses[s].votes > 0}

\* C11: a provider fetch that fails (network failure, non-2xx response,
\* missing or unparseable rating data) raises nothing into the item loop:
\* _fetch_rating returns, every enabled provider has been queried once, in
\* order, and the aggregate is the aggregate of the samples of the
\* providers that did not fail.
C11_FailureIsNoData ==
    pc = "fetched" =>
        /\ Len(requests) = Len(rating_sources)
        /\ \A i \in 1 .. Len(requests) :
              /\ requests[i].source = rating_sources[i]
              /\ requests[i].kind = responses[rating_sources[i]].kind
        /\ (result = None) <=> (AnsweredPassing = {})
        /\ AnsweredPassing # {} =>
              /\ Len(result) = 1
              /\ NearestTenth(result[1], SumOf(AnsweredPassing, RatingTimesVotes),
                              SumOf(AnsweredPassing, Votes))

C11_Witness ==
    /\ pc = "fetched"
    /\ rating_sources = <<"imdb", "trakt">>
    /\ responses["imdb"] = Failure("network")
    /\ responses["trakt"] = Sample(850, 100)
    /\ Len(requests) = 2
    /\ requests[2].source = "trakt"
    /\ result = Some(85)

(***************************************************************************)
(* service.py: the scheduling gate.  The setting last_completion is a      *)
(* string: '' (kind "empty"), a string datetime.fromisoformat rejects      *)
(* (kind "invalid"), or the ISO text of a naive timestamp t as             *)
(* save_completion_time writes it (kind "iso").                            *)
(***************************************************************************)
TicksPerDay == 86400 * TicksPerSecond

\* datetime.isoformat and datetime.fromisoformat on the text it wrote
isoformat(t) == [kind |-> "iso", t |-> t]
fromisoformatDate(text) == (text.t \div TicksPerDay) * TicksPerDay

fromisoformat(text) == text.t

is_first_run(s) == s.last_completion.kind = "empty"

should_run_updateStrict(s, t) ==
    IF is_first_run(s) THEN TRUE
    ELSE IF s.last_completion.kind = "invalid" THEN TRUE
    ELSE t > fromisoformat(s.last_completion) + s.update_interval * TicksPerDay

should_run_update(s, t) ==
    IF is_first_run(s) THEN TRUE
    ELSE IF s.last_completion.kind = "invalid" THEN TRUE   \* except ValueError
    ELSE LET last_completion_date == fromisoformat(s.last_completion)
             next_run == last_completion_date + s.update_interval * TicksPerDay
         IN  t >= next_run

(***************************************************************************)
(* SpecSched: should_run_update as a function of the stored completion     *)
(* time, the interval and the current time.                                *)
(***************************************************************************)
StoredCompletions ==
    {NoCompletion, [kind |-> "invalid", t |-> 0]}
        \cup {isoformat(t) : t \in {TicksPerDay, 2 * TicksPerDay + 1}}

InitSched ==
    /\ pc = "gate"
    /\ \E lc \in StoredCompletions, i \in 0 .. MaxInterval :
          /\ settings = [DefaultSettings EXCEPT !.last_completion = lc,
                                                !.update_interval = i]
          /\ \E k \in -1 .. MaxInterval + 1, d \in {-1, 0, 1} :
                now = lc.t + k * TicksPerDay + d
    /\ now >= 0
    /\ library = EmptyLibrary
    /\ rating_sources = <<"imdb">>
    /\ calls = NoCalls
    /\ items = <<>>
    /\ idx = 1
    /\ locals = NoLocals
    /\ responses = [s \in Sources |-> Failure("nodata")]
    /\ result = None
    /\ requests = <<>>
    /\ commands = <<>>
    /\ log = <<>>

ShouldRunUpdate ==
    /\ pc = "gate"
    /\ result' = Some(should_run_update(settings, now))
    /\ pc' = "gated"
    /\ UNCHANGED <<now, settings, library, rating_sources, calls, items, idx,
                   locals, responses, requests, commands, log>>

NextSched == ShouldRunUpdate

SpecSched == InitSched /\ [][NextSched]_vars

\* C4: should_run_update is true when the stored last_completion is empty or
\* cannot be parsed as a timestamp, and otherwise true exactly when
\* now >= last_completion + interval days; it is false one day before
\* last_completion + interval days and true at that instant.
C4_IsDue ==
    pc = "gated" =>
        LET lc == settings.last_completion
            interval == settings.update_interval
        IN  /\ lc.kind \in {"empty", "invalid"} => result = Some(TRUE)
            /\ lc.kind = "iso" =>
                  /\ result = Some(now >= lc.t + interval * TicksPerDay)
                  /\ now = lc.t + (interval - 1) * TicksPerDay => result = Some(FALSE)
                  /\ now = lc.t + interval * TicksPerDay => result = Some(TRUE)

C4_Witness ==
    /\ pc = "gated"
    /\ settings.last_completion.kind = "iso"
    /\ settings.update_interval = 2
    /\ now = settings.last_completion.t + TicksPerDay
    /\ result = Some(FALSE)

(***************************************************************************)
(* SpecLimiter: a sequence of fetches from the two providers, each gated   *)
(* by wait_for_token, with time passing between and during the requests.   *)
(***************************************************************************)
LimiterResponses == {Failure("http"), Failure("badvalue"), Sample(850, 100)}

InitLimiter ==
    /\ pc = "limiter"
    /\ now = 0
    /\ settings = DefaultSettings
    /\ library = EmptyLibrary
    /\ rating_sources = <<"imdb", "trakt">>
    /\ calls = NoCalls
    /\ items = <<>>
    /\ idx = 1
    /\ locals = NoLocals
    /\ responses = [s \in Sources |-> Failure("nodata")]
    /\ result = None
    /\ requests = <<>>
    /\ commands = <<>>
    /\ log = <<>>

Fetched(f, resp, source) ==
    /\ calls' = f.calls
    /\ now' = f.now
    /\ requests' = Append(requests, f.req)
    /\ responses' = [responses EXCEPT ![source] = resp]
    /\ result' = IF f.ret.raised THEN None ELSE Some(f.ret.rating)
    /\ UNCHANGED <<pc, settings, library, rating_sources, items, idx, locals,
                   commands, log>>

FetchImdb ==
    /\ pc = "limiter"
    /\ Len(requests) < MaxFetches
    /\ \E resp \in LimiterResponses, lat \in {0, MaxLatency} :
          Fetched(_fetch_imdb_rating(AMovie, resp, lat, calls, now), resp, "imdb")

FetchTrakt ==
    /\ pc = "limiter"
    /\ Len(requests) < MaxFetches
    /\ \E resp \in LimiterResponses, lat \in {0, MaxLatency} :
          Fetched(_fetch_trakt_rating(AMovie, resp, lat, calls, now), resp, "trakt")

\* time passes between two fetches
Elapse ==
    /\ pc = "limiter"
    /\ now < MaxElapse
    /\ now' = now + 1
    /\ UNCHANGED <<pc, settings, library, rating_sources, calls, items, idx,
                   locals, responses, result, requests, commands, log>>

NextLimiter == FetchImdb \/ FetchTrakt \/ Elapse

SpecLimiter == InitLimiter /\ [][NextLimiter]_vars

\* the requests issued to one source, in order
RequestsTo(source) == SelectSeq(requests, LAMBDA r : r.source = source)

\* C9: for each provider, over any sequence of fetches, successful or failed,
\* no more than N requests are issued within any one-second window (request
\* i + N is issued at least one second after request i); with N = 2 the
\* third of three back-to-back calls waits.
C9_RateNeverExceeded ==
    \A source \in Sources :
        LET reqs == RequestsTo(source)
            n == RateLimit(source)
        IN  \A i \in 1 .. Len(reqs) :
                i + n <= Len(reqs) => reqs[i + n].at - reqs[i].at >= TicksPerSecond

\* the first k fetches from a source all succeeded, each entered the moment
\* the one before returned
BackToBackSuccesses(reqs, k) ==
    \A j \in 1 .. k :
        /\ reqs[j].kind = "ok"
        /\ j > 1 => reqs[j].enter = reqs[j - 1].done

\* C10: from a limiter with no recorded calls, the first N back-to-back
\* successful calls to a provider pass wait_for_token without sleeping, and
\* only call N + 1 is delayed.
C10_BurstOfN ==
    \A source \in Sources :
        LET reqs == RequestsTo(source)
            n == RateLimit(source)
        IN  \A k \in 1 .. Len(reqs) :
                BackToBackSuccesses(reqs, k) =>
                    /\ k <= n => reqs[k].at = reqs[k].enter
                    /\ k = n + 1 => reqs[k].at > reqs[k].enter

\* the timestamps a limiter holds for a source
Window(c, source) == IF source \in DOMAIN c THEN c[source] ELSE <<>>

\* C12: a timestamp is added to a provider's window only after a fetch from
\* that provider was parsed into a rating and a vote count; a fetch that
\* fails or yields no data leaves the provider's window unchanged.
C12_RecordedOnlyAfterParse ==
    [][\A source \in Sources :
          Window(calls', source) # Window(calls, source) =>
              /\ Len(requests') = Len(requests) + 1
              /\ requests'[Len(requests')].source = source
              /\ requests'[Len(requests')].kind = "ok"]_vars

\* the timestamps of a window that are no older than one second at time t
NotOlderThanASecond(q, t) == SelectSeq(q, LAMBDA x : t - x <= TicksPerSecond)

\* how long wait_for_token slept for a request
Slept(r) == r.at - r.enter

\* the sleep of a call for source entered at time t with the dict c
DueSleep(c, source, t) ==
    LET q == NotOlderThanASecond(Window(c, source), t)
    IN  IF source \in DOMAIN c /\ Len(q) >= RateLimit(source)
        THEN TicksPerSecond - (t - q[1])
        ELSE 0

\* C20: wait_for_token always returns: at once, or after one sleep of at
\* most one second, of 1s - (now - oldest timestamp) when the window is
\* still at capacity once the timestamps older than one second are dropped.
C20_WaitIsBounded ==
    [][Len(requests') = Len(requests) + 1 =>
          LET r == requests'[Len(requests')]
          IN  /\ r.enter = now
              /\ Slept(r) >= 0
              /\ Slept(r) <= TicksPerSecond
              /\ Slept(r) = DueSleep(calls, r.source, now)]_vars

C20_Witness ==
    \E i \in 1 .. Len(requests) :
        /\ i > 1
        /\ Slept(requests[i]) = TicksPerSecond - 1
        /\ requests[i].source = requests[1].source
        /\ requests[i].enter = requests[1].done + 1

(***************************************************************************)
(* The video library behind the JSON-RPC interface.  A property of an      *)
(* item that the code converts is a field: Num(v), Missing (the key is     *)
(* absent or null) or Bad (a value of the wrong type).  uniqueid is        *)
(* "notdict" when it is no dict, "" when the dict has no usable 'imdb'     *)
(* entry, and the IMDb id otherwise.  firstaired is a field whose number   *)
(* is the day the date string YYYY-MM-DD names, counted from the epoch.    *)
(***************************************************************************)
Num(v) == [kind |-> "num", v |-> v]
Missing == [kind |-> "missing", v |-> 0]
Bad == [kind |-> "bad", v |-> 0]

Movie(id, title, rating, year, uniqueid) ==
    [movieid |-> id, title |-> title, rating |-> rating, year |-> year,
     uniqueid |-> uniqueid]

Show(id, uniqueid) == [tvshowid |-> id, uniqueid |-> uniqueid]

Episode(id, show, season, episode, firstaired, rating, uniqueid) ==
    [episodeid |-> id, tvshowid |-> show, season |-> season,
     episode |-> episode, firstaired |-> firstaired, rating |-> rating,
     uniqueid |-> uniqueid]

\* what xbmc.executeJSONRPC returns: the result, an empty string, text that
\* is no JSON, or a JSON error object without 'result'
RpcModes == {"ok", "empty", "malformed", "error"}

(***************************************************************************)
(* The calendar: tick 0 is 00:00 on 1 January of EpochYear.                *)
(***************************************************************************)
EpochYear == 2020

DaysInYear(y) ==
    IF y % 4 = 0 /\ (y % 100 # 0 \/ y % 400 = 0) THEN 366 ELSE 365

RECURSIVE YearFrom(_, _)
YearFrom(y, d) == IF d < DaysInYear(y) THEN y ELSE YearFrom(y + 1, d - DaysInYear(y))

\* datetime.now().year
YearOf(t) == YearFrom(EpochYear, t \div TicksPerDay)

RECURSIVE Filter(_, _)
Filter(seq, keep) ==
    IF seq = <<>> THEN <<>>
    ELSE IF keep[Head(seq)] THEN <<Head(seq)>> \o Filter(Tail(seq), keep)
    ELSE Filter(Tail(seq), keep)

UsableId(uniqueid) == uniqueid \notin {"notdict", ""}

(***************************************************************************)
(* RatingUpdater._get_movies                                               *)
(***************************************************************************)
_get_moviesAnyYear(lib, s, t, mode) ==
    IF mode # "ok" THEN <<>>
    ELSE LET recent == Filter(lib.movies,
                              [m \in Range(lib.movies) |-> UsableId(m.uniqueid)])
         IN  [i \in 1 .. Len(recent) |->
                 [movieid |-> recent[i].movieid, title |-> recent[i].title,
                  rating |-> recent[i].rating, year |-> recent[i].year,
                  uniqueid |-> recent[i].uniqueid,
                  imdbnumber |-> recent[i].uniqueid]]

_get_movies(lib, s, t, mode) ==
    IF mode # "ok" THEN <<>>
    ELSE LET cutoff_year == YearOf(t) - s.movie_years_back
             recent == Filter(lib.movies,
                              [m \in Range(lib.movies) |->
                                  m.year >= cutoff_year /\ UsableId(m.uniqueid)])
         IN  [i \in 1 .. Len(recent) |->
                 [movieid |-> recent[i].movieid, title |-> recent[i].title,
                  rating |-> recent[i].rating, year |-> recent[i].year,
                  uniqueid |-> recent[i].uniqueid,
                  imdbnumber |-> recent[i].uniqueid]]

(***************************************************************************)
(* RatingUpdater._is_recent_episode and _get_tvshow_episodes               *)
(***************************************************************************)
_is_recent_episodeStrict(episode, cutoff_date) ==
    IF episode.firstaired.kind # "num" THEN FALSE
    ELSE episode.firstaired.v * TicksPerDay > cutoff_date

_is_recent_episode(episode, cutoff_date) ==
    IF episode.firstaired.kind # "num" THEN FALSE
    ELSE episode.firstaired.v * TicksPerDay >= cutoff_date

\* show_imdb_map.get(tvshowid): the id of the last show with that tvshowid
\* that has a usable IMDb id, None when there is none
ShowImdb(lib, tvshowid) ==
    LET known == {i \in 1 .. Len(lib.tvshows) :
                     /\ lib.tvshows[i].tvshowid = tvshowid
                     /\ UsableId(lib.tvshows[i].uniqueid)}
    IN  IF known = {} THEN None
        ELSE Some(lib.tvshows[CHOOSE i \in known : \A j \in known : j <= i].uniqueid)

_get_tvshow_episodesFatal(lib, s, t, shows_mode, episodes_mode) ==
    IF \E e \in Range(lib.episodes) : e.firstaired.kind # "num" THEN <<>>
    ELSE IF shows_mode \in {"empty", "malformed"} THEN <<>>
    ELSE IF episodes_mode # "ok" THEN <<>>
    ELSE LET cutoff_date == t - s.tvshow_months_back * 30 * TicksPerDay
             recent == Filter(lib.episodes,
                              [e \in Range(lib.episodes) |->
                                  /\ e.firstaired.v * TicksPerDay >= cutoff_date
                                  /\ ShowImdb(lib, e.tvshowid) # None
                                  /\ UsableId(e.uniqueid)])
         IN  [i \in 1 .. Len(recent) |->
                 [episodeid |-> recent[i].episodeid,
                  tvshowid |-> recent[i].tvshowid,
                  season |-> recent[i].season, episode |-> recent[i].episode,
                  firstaired |-> recent[i].firstaired,
                  rating |-> recent[i].rating, uniqueid |-> recent[i].uniqueid,
                  imdbnumber |-> recent[i].uniqueid,
                  show_imdbnumber |-> ShowImdb(lib, recent[i].tvshowid)[1]]]

_get_tvshow_episodes(lib, s, t, shows_mode, episodes_mode) ==
    IF shows_mode \in {"empty", "malformed"} THEN <<>>
    ELSE IF episodes_mode # "ok" THEN <<>>
    ELSE LET cutoff_date == t - s.tvshow_months_back * 30 * TicksPerDay
             shows == IF shows_mode = "ok" THEN lib
                      ELSE [lib EXCEPT !.tvshows = <<>>]
             recent == Filter(lib.episodes,
                              [e \in Range(lib.episodes) |->
                                  /\ _is_recent_episode(e, cutoff_date)
                                  /\ ShowImdb(shows, e.tvshowid) # None
                                  /\ UsableId(e.uniqueid)])
         IN  [i \in 1 .. Len(recent) |->
                 [episodeid |-> recent[i].episodeid,
                  tvshowid |-> recent[i].tvshowid,
                  season |-> recent[i].season, episode |-> recent[i].episode,
                  firstaired |-> recent[i].firstaired,
                  rating |-> recent[i].rating, uniqueid |-> recent[i].uniqueid,
                  imdbnumber |-> recent[i].uniqueid,
                  show_imdbnumber |-> ShowImdb(shows, recent[i].tvshowid)[1]]]

(***************************************************************************)
(* The histories.  A log entry carries the item being processed when it    *)
(* was written; a command is a JSON-RPC request sent to the library.       *)
(***************************************************************************)
NoItem == <<"none", 0>>
MovieItem(m) == <<"movie", m.movieid>>
EpisodeItem(e) == <<"episode", e.episodeid>>

Log(tag, item, old, new) == [tag |-> tag, item |-> item, old |-> old, new |-> new]
Command(method, item, rating) == [method |-> method, item |-> item, rating |-> rating]

\* what the library answers to a Set...Details command: it applies the
\* update and confirms it, or answers with an empty string or with text
\* that is no JSON and leaves the rating as it was
WriteModes == {"ok", "empty", "malformed"}

SetRating(seq, key, id, rating) ==
    [i \in 1 .. Len(seq) |->
        IF seq[i][key] = id THEN [seq[i] EXCEPT !.rating = Num(10 * rating)]
        ELSE seq[i]]

(***************************************************************************)
(* RatingUpdater.__init__ and _get_enabled_sources                         *)
(***************************************************************************)
_get_enabled_sourcesNoDefault(s) ==
    [sources |-> (IF s.use_imdb THEN <<"imdb">> ELSE <<>>)
                     \o (IF s.use_trakt THEN <<"trakt">> ELSE <<>>),
     settings |-> s, warned |-> FALSE]

_get_enabled_sources(s) ==
    LET sources == (IF s.use_imdb THEN <<"imdb">> ELSE <<>>)
                       \o (IF s.use_trakt THEN <<"trakt">> ELSE <<>>)
    IN  IF sources = <<>>
        THEN [sources |-> <<"imdb">>,
              settings |-> [s EXCEPT !.use_imdb = TRUE],
              warned |-> TRUE]
        ELSE [sources |-> sources, settings |-> s, warned |-> FALSE]

Construct ==
    /\ pc = "boot"
    /\ LET e == _get_enabled_sources(settings)
       IN  /\ rating_sources' = e.sources
           /\ settings' = e.settings
           /\ log' = IF e.warned
                     THEN Append(log, Log("warning", NoItem, 0, 0))
                     ELSE log
    /\ calls' = NoCalls
    /\ pc' = "run"
    /\ UNCHANGED <<now, library, items, idx, locals, responses, result,
                   requests, commands>>

(***************************************************************************)
(* RatingUpdaterService.run up to the call of update_library_ratings       *)
(***************************************************************************)
RunRegardless ==
    /\ pc = "run"
    /\ pc' = "update_movies"
    /\ log' = Append(log, Log(IF should_run_update(settings, now)
                              THEN "starting" ELSE "skipping", NoItem, 0, 0))
    /\ UNCHANGED <<now, settings, library, rating_sources, calls, items, idx,
                   locals, responses, result, requests, commands>>

Run ==
    /\ pc = "run"
    /\ IF should_run_update(settings, now)
       THEN /\ pc' = "update_movies"
            /\ log' = Append(log, Log("starting", NoItem, 0, 0))
       ELSE /\ pc' = "stopped"
            /\ log' = Append(log, Log("skipping", NoItem, 0, 0))
    /\ UNCHANGED <<now, settings, library, rating_sources, calls, items, idx,
                   locals, responses, result, requests, commands>>

(***************************************************************************)
(* update_library_ratings and the head of update_movies: the query         *)
(***************************************************************************)
\* logger.error("Empty response from JSON-RPC ... call") and
\* logger.error("Error in _get_...: ..."): the query named by method got an
\* empty string or text that is no JSON
QueryError(method, mode) ==
    IF mode \in {"empty", "malformed"}
    THEN <<Log("error", <<method, 0>>, 0, 0)>>
    ELSE <<>>

UpdateMovies ==
    /\ pc = "update_movies"
    /\ IF settings.update_movies
       THEN \E mode \in RpcModes :
               /\ items' = _get_movies(library, settings, now, mode)
               /\ commands' = Append(commands,
                                     Command("VideoLibrary.GetMovies", NoItem, 0))
               /\ log' = log \o QueryError("VideoLibrary.GetMovies", mode)
               /\ pc' = IF items' = <<>> THEN "update_tvshows" ELSE "movies"
       ELSE /\ items' = <<>>
            /\ commands' = commands
            /\ log' = log
            /\ pc' = "update_tvshows"
    /\ idx' = 1
    /\ UNCHANGED <<now, settings, library, rating_sources, calls, locals,
                   responses, result, requests>>

\* old_rating = round(float(item.get('rating', 0)), 1), where float succeeds
OldRating(item) ==
    Round1(IF item.rating.kind = "missing" THEN 0 ELSE item.rating.v, 100)

WhatMovie(m) ==
    [item |-> MovieItem(m), is_movie |-> TRUE, imdbnumber |-> m.imdbnumber,
     show_imdbnumber |-> m.imdbnumber, season |-> None, episode |-> None]

ShouldWriteAlways(new_rating, old_rating) == new_rating # None

\* if new_rating and new_rating != old_rating
ShouldWrite(new_rating, old_rating) ==
    Truthy(new_rating) /\ new_rating[1] # old_rating

(***************************************************************************)
(* update_movies: one iteration of the loop, for the movie at idx, f being *)
(* what _fetch_rating returns for it and wr the answer of the library.     *)
(***************************************************************************)
\* float(movie.get('rating', 0)) raises
BadRating(item) == item.rating.kind = "bad"

MovieWrites(movie, f) ==
    ~BadRating(movie) /\ ShouldWrite(f.value, OldRating(movie))

\* float() raises, or the UPDATE_RESULT line reads movie['title']
MovieRaises(movie, f) ==
    BadRating(movie) \/ (MovieWrites(movie, f) /\ movie.title = None)

\* the handler reads movie['title'] again
MovieEscapes(movie, f) == MovieRaises(movie, f) /\ movie.title = None

Weighted_log(item, f) ==
    IF f.value # None THEN <<Log("weighted", item, 0, f.value[1])>> ELSE <<>>

MovieBody(movie, f, resp, wr) ==
    /\ responses' = IF BadRating(movie) THEN responses ELSE resp
    /\ result' = IF BadRating(movie) THEN result ELSE f.value
    /\ calls' = IF BadRating(movie) THEN calls ELSE f.calls
    /\ now' = IF BadRating(movie) THEN now ELSE f.now
    /\ requests' = IF BadRating(movie) THEN requests ELSE requests \o f.reqs
    /\ commands' =
          IF MovieWrites(movie, f)
          THEN Append(commands, Command("VideoLibrary.SetMovieDetails",
                                        MovieItem(movie), f.value[1]))
          ELSE commands
    /\ library' =
          IF MovieWrites(movie, f) /\ wr = "ok"
          THEN [library EXCEPT !.movies =
                   SetRating(library.movies, "movieid", movie.movieid, f.value[1])]
          ELSE library
    /\ log' = log
          \o (IF BadRating(movie) THEN <<>> ELSE Weighted_log(MovieItem(movie), f))
          \o (IF MovieWrites(movie, f) /\ ~MovieRaises(movie, f)
              THEN <<Log("UPDATE_RESULT", MovieItem(movie), OldRating(movie),
                         f.value[1])>>
              ELSE <<>>)
          \o (IF MovieRaises(movie, f) /\ ~MovieEscapes(movie, f)
              THEN <<Log("error", MovieItem(movie), 0, 0)>>
              ELSE <<>>)
    /\ pc' = IF MovieEscapes(movie, f) THEN "crashed"
             ELSE IF idx = Len(items) THEN "update_tvshows"
             ELSE "movies"

\* the answers of the providers are drawn from RS
UpdateMovieOver(RS) ==
    /\ pc = "movies"
    /\ idx <= Len(items)
    /\ \E resp \in [Sources -> RS], wr \in WriteModes :
          MovieBody(items[idx],
                    _fetch_rating(rating_sources, WhatMovie(items[idx]), resp,
                                  ZeroLatency, calls, now),
                    resp, wr)
    /\ idx' = idx + 1
    /\ UNCHANGED <<settings, rating_sources, items, locals>>

(***************************************************************************)
(* update_library_ratings and the head of update_tvshow_episodes           *)
(***************************************************************************)
UpdateTvshows ==
    /\ pc = "update_tvshows"
    /\ IF settings.update_tvshows
       THEN \E shows_mode \in RpcModes, episodes_mode \in RpcModes :
               /\ items' = _get_tvshow_episodes(library, settings, now,
                                                shows_mode, episodes_mode)
               /\ commands' = commands
                     \o <<Command("VideoLibrary.GetTVShows", NoItem, 0)>>
                     \o (IF shows_mode \in {"empty", "malformed"} THEN <<>>
                         ELSE <<Command("VideoLibrary.GetEpisodes", NoItem, 0)>>)
               /\ log' = log
                     \o QueryError("VideoLibrary.GetTVShows", shows_mode)
                     \o (IF shows_mode \in {"empty", "malformed"} THEN <<>>
                         ELSE QueryError("VideoLibrary.GetEpisodes",
                                         episodes_mode))
               /\ pc' = IF items' = <<>> THEN "save" ELSE "episodes"
       ELSE /\ items' = <<>>
            /\ commands' = commands
            /\ log' = log
            /\ pc' = "save"
    /\ idx' = 1
    /\ locals' = NoLocals
    /\ UNCHANGED <<now, settings, library, rating_sources, calls, responses,
                   result, requests>>

\* f"{x:02d}" raises unless x is an int
FormatRaises(field) == field.kind # "num"

WhatEpisode(e) ==
    [item |-> EpisodeItem(e), is_movie |-> FALSE, imdbnumber |-> e.imdbnumber,
     show_imdbnumber |-> e.show_imdbnumber,
     season |-> Some(e.season.v), episode |-> Some(e.episode.v)]

(***************************************************************************)
(* update_tvshow_episodes: one iteration of the loop.  show_title, season  *)
(* and episode_num are locals of the function: the handler reads whatever  *)
(* they hold when the exception arrives.                                   *)
(***************************************************************************)
\* the locals after lines 101-104
LocalsAfter(episode, old) ==
    IF BadRating(episode) THEN old
    ELSE [bound |-> TRUE, season |-> episode.season, episode |-> episode.episode]

\* the "Processing ..." line formats season and episode_num
BadNumber(episode) ==
    ~BadRating(episode)
        /\ (FormatRaises(episode.season) \/ FormatRaises(episode.episode))

EpisodeRaises(episode) == BadRating(episode) \/ BadNumber(episode)

EpisodeWrites(episode, f) ==
    ~EpisodeRaises(episode) /\ ShouldWrite(f.value, OldRating(episode))

\* the handler formats show_title, season and episode_num
HandlerRaises(l) ==
    ~l.bound \/ FormatRaises(l.season) \/ FormatRaises(l.episode)

EpisodeEscapes(episode, old) ==
    EpisodeRaises(episode) /\ HandlerRaises(LocalsAfter(episode, old))

EpisodeBody(episode, f, resp, wr) ==
    /\ locals' = LocalsAfter(episode, locals)
    /\ responses' = IF EpisodeRaises(episode) THEN responses ELSE resp
    /\ result' = IF EpisodeRaises(episode) THEN result ELSE f.value
    /\ calls' = IF EpisodeRaises(episode) THEN calls ELSE f.calls
    /\ now' = IF EpisodeRaises(episode) THEN now ELSE f.now
    /\ requests' = IF EpisodeRaises(episode) THEN requests ELSE requests \o f.reqs
    /\ commands' =
          IF EpisodeWrites(episode, f)
          THEN Append(commands, Command("VideoLibrary.SetEpisodeDetails",
                                        EpisodeItem(episode), f.value[1]))
          ELSE commands
    /\ library' =
          IF EpisodeWrites(episode, f) /\ wr = "ok"
          THEN [library EXCEPT !.episodes =
                   SetRating(library.episodes, "episodeid", episode.episodeid,
                             f.value[1])]
          ELSE library
    /\ log' = log
          \o (IF EpisodeRaises(episode) THEN <<>>
              ELSE Weighted_log(EpisodeItem(episode), f))
          \o (IF EpisodeWrites(episode, f)
              THEN <<Log("UPDATE_RESULT", EpisodeItem(episode),
                         OldRating(episode), f.value[1])>>
              ELSE <<>>)
          \o (IF EpisodeRaises(episode) /\ ~EpisodeEscapes(episode, locals)
              THEN <<Log("error", EpisodeItem(episode), 0, 0)>>
              ELSE <<>>)
    /\ pc' = IF EpisodeEscapes(episode, locals) THEN "crashed"
             ELSE IF idx = Len(items) THEN "save"
             ELSE "episodes"

UpdateEpisodeOver(RS) ==
    /\ pc = "episodes"
    /\ idx <= Len(items)
    /\ \E resp \in [Sources -> RS], wr \in WriteModes :
          EpisodeBody(items[idx],
                      _fetch_rating(rating_sources, WhatEpisode(items[idx]), resp,
                                    ZeroLatency, calls, now),
                      resp, wr)
    /\ idx' = idx + 1
    /\ UNCHANGED <<settings, rating_sources, items>>

(***************************************************************************)
(* RatingUpdaterService.run after update_library_ratings returned:         *)
(* save_completion_time                                                    *)
(***************************************************************************)
SaveCompletion ==
    /\ pc = "save"
    /\ settings' = [settings EXCEPT !.last_completion = isoformat(now)]
    /\ log' = Append(log, Log("completed", NoItem, 0, 0))
    /\ pc' = "stopped"
    /\ UNCHANGED <<now, library, rating_sources, calls, items, idx, locals,
                   responses, result, requests, commands>>

(***************************************************************************)
(* Spec: one start of the service over a small library.                    *)
(***************************************************************************)
StartTime == 800 * TicksPerDay

MovieIds == <<"tt_m1", "tt_m2", "tt_m3", "tt_m4">>
EpisodeIds == <<"tt_e1", "tt_e2", "tt_e3", "tt_e4">>

\* title, rating, year, uniqueid ("id": the movie's own IMDb id)
RunMovieShapes ==
    {<<Some("title"), Num(790), 2022, "id">>,
     <<Some("title"), Bad, 2022, "id">>,
     <<None, Bad, 2022, "id">>,
     <<None, Num(790), 2022, "id">>,
     <<Some("title"), Num(790), 2019, "id">>,
     <<Some("title"), Num(790), 2021, "id">>,
     <<Some("title"), Num(790), 2022, "">>,
     <<Some("title"), Num(790), 2022, "notdict">>}

\* season, episode, firstaired, rating
RunEpisodeShapes ==
    {<<Num(1), Num(2), Num(790), Num(790)>>,
     <<Missing, Num(2), Num(790), Num(790)>>,
     <<Num(1), Num(2), Num(790), Bad>>,
     <<Num(1), Num(2), Num(700), Num(790)>>}

SeqsUpTo(S, n) == UNION {[1 .. k -> S] : k \in 0 .. n}

MoviesOf(shapes) ==
    [i \in 1 .. Len(shapes) |->
        Movie(i, shapes[i][1], shapes[i][2], shapes[i][3],
              IF shapes[i][4] = "id" THEN MovieIds[i] ELSE shapes[i][4])]

EpisodesOf(shapes) ==
    [i \in 1 .. Len(shapes) |->
        Episode(i, 1, shapes[i][1], shapes[i][2], shapes[i][3], shapes[i][4],
                EpisodeIds[i])]

RunLibraries ==
    {[movies |-> MoviesOf(ms), tvshows |-> <<Show(1, "tt_s1")>>,
      episodes |-> EpisodesOf(es)] :
        <<ms, es>> \in {p \in SeqsUpTo(RunMovieShapes, MaxItems)
                                \X SeqsUpTo(RunEpisodeShapes, MaxItems) :
                            Len(p[1]) + Len(p[2]) <= MaxItems}}

RunResponses == {Failure("network"), Sample(850, 100)}

Init ==
    /\ pc = "boot"
    /\ now = StartTime
    /\ \E ui \in BOOLEAN, ut \in BOOLEAN, um \in BOOLEAN, us \in BOOLEAN,
          lc \in {NoCompletion, isoformat(StartTime - TicksPerDay),
                  isoformat(StartTime - TicksPerDay + 1)} :
          settings = [DefaultSettings EXCEPT
                         !.use_imdb = ui, !.use_trakt = ut,
                         !.update_movies = um, !.update_tvshows = us,
                         !.last_completion = lc]
    /\ library \in RunLibraries
    /\ rating_sources = <<>>
    /\ calls = NoCalls
    /\ items = <<>>
    /\ idx = 1
    /\ locals = NoLocals
    /\ responses = [s \in Sources |-> Failure("nodata")]
    /\ result = None
    /\ requests = <<>>
    /\ commands = <<>>
    /\ log = <<>>

UpdateMovie == UpdateMovieOver(RunResponses)
UpdateEpisode == UpdateEpisodeOver(RunResponses)

Next ==
    \/ Construct
    \/ Run
    \/ UpdateMovies
    \/ UpdateMovie
    \/ UpdateTvshows
    \/ UpdateEpisode
    \/ SaveCompletion

Spec == Init /\ [][Next]_vars

(***************************************************************************)
(* SpecItem: one iteration of a pass, over every shape of item and every   *)
(* answer of the providers.  It starts where update_movies or              *)
(* update_tvshow_episodes has selected its list: the service was           *)
(* constructed, the update was due and the library answered the queries.   *)
(***************************************************************************)
ItemMovieShapes ==
    {<<title, rating, 2022, "id">> :
        title \in {None, Some("title")},
        rating \in {Num(0), Num(725), Num(790), Num(794), Missing, Bad}}

ItemEpisodeShapes ==
    {<<season, episode, Num(790), rating>> :
        season \in {Num(0), Num(1), Missing, Bad},
        episode \in {Num(2), Missing},
        rating \in {Num(790), Num(794), Missing, Bad}}

ItemResponses ==
    {Failure(k) : k \in FailureKinds}
        \cup {Sample(r, v) : r \in {0, 4, 725, 790, 850}, v \in {0, 1, 100}}

ItemLibraries ==
    {[movies |-> MoviesOf(<<m>>), tvshows |-> <<>>, episodes |-> <<>>] :
        m \in ItemMovieShapes}
    \cup
    {[movies |-> <<>>, tvshows |-> <<Show(1, "tt_s1")>>,
      episodes |-> EpisodesOf(<<e>>)] : e \in ItemEpisodeShapes}

InitItem ==
    /\ now = StartTime
    /\ library \in ItemLibraries
    /\ rating_sources \in SourceLists
    /\ settings = [DefaultSettings EXCEPT
                      !.use_imdb = "imdb" \in Range(rating_sources),
                      !.use_trakt = "trakt" \in Range(rating_sources),
                      !.update_movies = library.movies # <<>>]
    /\ IF library.movies # <<>>
       THEN /\ pc = "movies"
            /\ items = _get_movies(library, settings, now, "ok")
            /\ commands = <<Command("VideoLibrary.GetMovies", NoItem, 0)>>
       ELSE /\ pc = "episodes"
            /\ items = _get_tvshow_episodes(library, settings, now, "ok", "ok")
            /\ commands = <<Command("VideoLibrary.GetTVShows", NoItem, 0),
                            Command("VideoLibrary.GetEpisodes", NoItem, 0)>>
    /\ calls = NoCalls
    /\ idx = 1
    /\ locals = NoLocals
    /\ responses = [s \in Sources |-> Failure("nodata")]
    /\ result = None
    /\ requests = <<>>
    /\ log = <<Log("starting", NoItem, 0, 0)>>

UpdateMovieItem == UpdateMovieOver(ItemResponses)
UpdateEpisodeItem == UpdateEpisodeOver(ItemResponses)

NextItem == UpdateMovieItem \/ UpdateEpisodeItem

SpecItem == InitItem /\ [][NextItem]_vars

(***************************************************************************)
(* SpecSelect: _get_tvshow_episodes as a function of the library, of the   *)
(* tvshow_months_back setting and of the time of the call.  Day 0 is       *)
(* 2020-01-01, day 517 is 2021-06-01 and day 1461 is 2024-01-01.  An       *)
(* episode's firstaired is Num(day) for a date string YYYY-MM-DD, Missing  *)
(* for an absent or empty string and Bad for a string strptime rejects.    *)
(***************************************************************************)
SelectTimes ==
    {517 * TicksPerDay, 720 * TicksPerDay, 720 * TicksPerDay + 1,
     1461 * TicksPerDay}

SelectMonths == {1, 24}

\* firstaired, tvshowid, uniqueid ("id": the episode's own IMDb id)
SelectEpisodeShapes ==
    {<<firstaired, ref[1], ref[2]>> :
        firstaired \in {Num(0), Num(700), Missing, Bad},
        ref \in {<<1, "id">>, <<2, "id">>, <<1, "">>, <<1, "notdict">>}}

SelectShows ==
    {<<Show(1, "tt_s1"), Show(2, "")>>,
     <<Show(1, "tt_s1"), Show(2, "tt_s2")>>,
     <<Show(1, "notdict")>>}

SelectEpisodesOf(shapes) ==
    [i \in 1 .. Len(shapes) |->
        Episode(i, shapes[i][2], Num(1), Num(i), shapes[i][1], Num(790),
                IF shapes[i][3] = "id" THEN EpisodeIds[i] ELSE shapes[i][3])]

SelectLibraries ==
    {[movies |-> <<>>, tvshows |-> shows, episodes |-> SelectEpisodesOf(es)] :
        shows \in SelectShows, es \in SeqsUpTo(SelectEpisodeShapes, MaxItems)}

InitSelect ==
    /\ pc = "select"
    /\ now \in SelectTimes
    /\ \E months \in SelectMonths :
          settings = [DefaultSettings EXCEPT !.tvshow_months_back = months]
    /\ library \in SelectLibraries
    /\ rating_sources = <<"imdb", "trakt">>
    /\ calls = NoCalls
    /\ items = <<>>
    /\ idx = 1
    /\ locals = NoLocals
    /\ responses = [s \in Sources |-> Failure("nodata")]
    /\ result = None
    /\ requests = <<>>
    /\ commands = <<>>
    /\ log = <<>>

GetTvshowEpisodes ==
    /\ pc = "select"
    /\ items' = _get_tvshow_episodes(library, settings, now, "ok", "ok")
    /\ commands' = <<Command("VideoLibrary.GetTVShows", NoItem, 0),
                     Command("VideoLibrary.GetEpisodes", NoItem, 0)>>
    /\ pc' = "selected"
    /\ UNCHANGED <<now, settings, library, rating_sources, calls, idx, locals,
                   responses, result, requests, log>>

NextSelect == GetTvshowEpisodes

SpecSelect == InitSelect /\ [][NextSelect]_vars

(***************************************************************************)
(* SpecRerun: the service is started, runs a cycle, and is started once    *)
(* more when the next update is due.  Each provider gives the same answer  *)
(* in both cycles, and the library answers every query and applies every   *)
(* update.  The histories are those of the running process: a restart      *)
(* empties them and leaves the mark "restarted".                           *)
(***************************************************************************)
RerunResponses == {Failure("network"), Sample(850, 100), Sample(790, 100)}

InitRerun ==
    /\ pc = "boot"
    /\ now = StartTime
    /\ \E ui \in BOOLEAN, ut \in BOOLEAN :
          settings = [DefaultSettings EXCEPT !.use_imdb = ui, !.use_trakt = ut]
    /\ library \in RunLibraries
    /\ rating_sources = <<>>
    /\ calls = NoCalls
    /\ items = <<>>
    /\ idx = 1
    /\ locals = NoLocals
    /\ responses \in [Sources -> RerunResponses]
    /\ result = None
    /\ requests = <<>>
    /\ commands = <<>>
    /\ log = <<>>

\* update_movies up to the loop, the library answering the query
QueryMovies ==
    /\ pc = "update_movies"
    /\ items' = _get_movies(library, settings, now, "ok")
    /\ commands' = Append(commands, Command("VideoLibrary.GetMovies", NoItem, 0))
    /\ pc' = IF items' = <<>> THEN "update_tvshows" ELSE "movies"
    /\ idx' = 1
    /\ UNCHANGED <<now, settings, library, rating_sources, calls, locals,
                   responses, result, requests, log>>

\* one iteration of update_movies, the providers answering as responses says
UpdateMovieAgain ==
    /\ pc = "movies"
    /\ idx <= Len(items)
    /\ MovieBody(items[idx],
                 _fetch_rating(rating_sources, WhatMovie(items[idx]), responses,
                               ZeroLatency, calls, now),
                 responses, "ok")
    /\ idx' = idx + 1
    /\ UNCHANGED <<settings, rating_sources, items, locals>>

QueryTvshows ==
    /\ pc = "update_tvshows"
    /\ items' = _get_tvshow_episodes(library, settings, now, "ok", "ok")
    /\ commands' = commands
          \o <<Command("VideoLibrary.GetTVShows", NoItem, 0),
               Command("VideoLibrary.GetEpisodes", NoItem, 0)>>
    /\ pc' = IF items' = <<>> THEN "save" ELSE "episodes"
    /\ idx' = 1
    /\ locals' = NoLocals
    /\ UNCHANGED <<now, settings, library, rating_sources, calls, responses,
                   result, requests, log>>

UpdateEpisodeAgain ==
    /\ pc = "episodes"
    /\ idx <= Len(items)
    /\ EpisodeBody(items[idx],
                   _fetch_rating(rating_sources, WhatEpisode(items[idx]),
                                 responses, ZeroLatency, calls, now),
                   responses, "ok")
    /\ idx' = idx + 1
    /\ UNCHANGED <<settings, rating_sources, items>>

\* the process has ended; the service is started again once the interval
\* has passed: a new RatingUpdaterService over the same settings and library
Restart ==
    /\ pc \in {"stopped", "crashed"}
    /\ \A i \in 1 .. Len(log) : log[i].tag # "restarted"
    /\ pc' = "boot"
    /\ now' = now + settings.update_interval * TicksPerDay
    /\ rating_sources' = <<>>
    /\ calls' = NoCalls
    /\ items' = <<>>
    /\ idx' = 1
    /\ locals' = NoLocals
    /\ result' = None
    /\ requests' = <<>>
    /\ commands' = <<>>
    /\ log' = <<Log("restarted", NoItem, 0, 0)>>
    /\ UNCHANGED <<settings, library, responses>>

NextRerun ==
    \/ Construct
    \/ Run
    \/ QueryMovies
    \/ UpdateMovieAgain
    \/ QueryTvshows
    \/ UpdateEpisodeAgain
    \/ SaveCompletion
    \/ Restart

SpecRerun == InitRerun /\ [][NextRerun]_vars

(***************************************************************************)
(* SpecInterval: the service is started again and again over an empty      *)
(* library, a little less than a day or a little more than a day after     *)
(* the start before.  last_completion is what save_completion_time wrote,  *)
(* or empty before the first cycle.  The histories are those of the        *)
(* running process.                                                        *)
(***************************************************************************)
StartGaps == {TicksPerDay - 1, TicksPerDay + 1}

LastStart == StartTime + (MaxInterval + 1) * TicksPerDay

InitInterval ==
    /\ pc = "boot"
    /\ now = StartTime
    /\ \E interval \in 1 .. MaxInterval :
          settings = [DefaultSettings EXCEPT !.update_interval = interval]
    /\ library = EmptyLibrary
    /\ rating_sources = <<>>
    /\ calls = NoCalls
    /\ items = <<>>
    /\ idx = 1
    /\ locals = NoLocals
    /\ responses = [s \in Sources |-> Failure("nodata")]
    /\ result = None
    /\ requests = <<>>
    /\ commands = <<>>
    /\ log = <<>>

\* the process has ended; the service is started again some time later
StartAgain ==
    /\ pc = "stopped"
    /\ \E gap \in StartGaps :
          /\ now + gap <= LastStart
          /\ now' = now + gap
    /\ pc' = "boot"
    /\ rating_sources' = <<>>
    /\ calls' = NoCalls
    /\ items' = <<>>
    /\ idx' = 1
    /\ locals' = NoLocals
    /\ result' = None
    /\ requests' = <<>>
    /\ commands' = <<>>
    /\ log' = <<Log("restarted", NoItem, 0, 0)>>
    /\ UNCHANGED <<settings, library, responses>>

NextInterval ==
    \/ Construct
    \/ Run
    \/ QueryMovies
    \/ QueryTvshows
    \/ SaveCompletion
    \/ StartAgain

SpecInterval == InitInterval /\ [][NextInterval]_vars

(***************************************************************************)
(* What the histories say about an item of the list being iterated.        *)
(***************************************************************************)
ItemOf(x) == IF "movieid" \in DOMAIN x THEN MovieItem(x) ELSE EpisodeItem(x)

SetMethods == {"VideoLibrary.SetMovieDetails", "VideoLibrary.SetEpisodeDetails"}

\* the update commands issued for an item
Updates(item) ==
    {i \in 1 .. Len(commands) :
        commands[i].item = item /\ commands[i].method \in SetMethods}

\* the aggregate ratings computed for an item
Aggregates(item) ==
    {log[i].new : i \in {j \in 1 .. Len(log) :
                            log[j].tag = "weighted" /\ log[j].item = item}}

Fetched_for(item) == \E i \in 1 .. Len(requests) : requests[i].item = item

Tagged(tag, item) ==
    {i \in 1 .. Len(log) : log[i].tag = tag /\ log[i].item = item}

\* the rating the library returned for the item, in hundredths
StoredRating(x) == IF x.rating.kind = "missing" THEN 0 ELSE x.rating.v

\* the rating the library holds now for the item
CurrentRating(x) ==
    IF "movieid" \in DOMAIN x
    THEN (CHOOSE m \in Range(library.movies) : m.movieid = x.movieid).rating
    ELSE (CHOOSE e \in Range(library.episodes) : e.episodeid = x.episodeid).rating

Started == Tagged("starting", NoItem) # {}
Ended == pc \in {"stopped", "crashed"}

\* C1: in the movie pass and in the episode pass an exception raised while
\* processing one item (a missing or ill-typed title, rating, season or
\* episode number included) is caught at the item boundary, and every
\* remaining item of the batch is processed: fetched, or logged as failed.
C1_ItemIsolation ==
    /\ pc # "crashed"
    /\ pc \in {"update_tvshows", "save", "stopped"} =>
          \A k \in 1 .. Len(items) :
              \/ Fetched_for(ItemOf(items[k]))
              \/ Tagged("error", ItemOf(items[k])) # {}

\* C2: every cycle the scheduler lets start reaches the recording of its
\* completion, whatever provider, library and per-item errors occur: a run
\* that started an update and has ended has recorded the completion.
C2_CycleCompletes ==
    (Started /\ Ended) => Tagged("completed", NoItem) # {}

\* C3: in a run where the update is due, last_completion is set exactly
\* once, to the current time, after the pass over all selected movies and
\* episodes and after every provider call and library update of the cycle,
\* however many items failed.
C3_CompletionOnce ==
    (Started /\ Ended) =>
        /\ Cardinality(Tagged("completed", NoItem)) = 1
        /\ log[Len(log)].tag = "completed"
        /\ settings.last_completion = isoformat(now)
        /\ idx = Len(items) + 1

\* C5 as stated: for every processed item whose aggregate rating is defined,
\* the update command is issued, carrying the new rating, exactly when the
\* new rating differs from the item's stored rating.
C5_Original ==
    \A k \in 1 .. Len(items) :
        k < idx =>
            \A n \in Aggregates(ItemOf(items[k])) :
                (\E i \in Updates(ItemOf(items[k])) : commands[i].rating = n)
                    <=> (10 * n # StoredRating(items[k]))

\* C5 amended: for every processed item whose aggregate rating is defined,
\* the update command is issued, once and carrying the new rating, exactly
\* when the new rating is not 0.0 and differs from the item's stored rating
\* rounded to one decimal place; otherwise no update command is issued.
C5_WriteIffChanged ==
    \A k \in 1 .. Len(items) :
        k < idx =>
            \A n \in Aggregates(ItemOf(items[k])) :
                IF n # 0 /\ n # Round1(StoredRating(items[k]), 100)
                THEN /\ Cardinality(Updates(ItemOf(items[k]))) = 1
                     /\ \A i \in Updates(ItemOf(items[k])) : commands[i].rating = n
                ELSE Updates(ItemOf(items[k])) = {}

C5_Witness ==
    /\ idx = 2
    /\ items[1].rating = Num(794)
    /\ Aggregates(ItemOf(items[1])) = {85}
    /\ \E i \in Updates(ItemOf(items[1])) : commands[i].rating = 85

\* C7: when no sample of an item has a positive rating and a positive vote
\* count (the total vote count is zero), the aggregate is None, no update
\* command is issued for the item and its stored rating is left unchanged.
C7_NoVotesNoUpdate ==
    (idx > 1 /\ idx <= Len(items) + 1 /\ Fetched_for(ItemOf(items[idx - 1]))
        /\ Passing = {}) =>
        /\ result = None
        /\ Updates(ItemOf(items[idx - 1])) = {}
        /\ CurrentRating(items[idx - 1]) = items[idx - 1].rating

C7_Witness ==
    /\ idx = 2
    /\ Fetched_for(ItemOf(items[1]))
    /\ rating_sources = <<"imdb", "trakt">>
    /\ responses["imdb"] = Sample(850, 0)
    /\ responses["trakt"] = Failure("network")
    /\ result = None
    /\ Updates(ItemOf(items[1])) = {}

\* the providers a settings record switches on
SwitchedOn(s) ==
    {source \in Sources :
        (source = "imdb" /\ s.use_imdb) \/ (source = "trakt" /\ s.use_trakt)}

\* C13: construction of the updater leaves a non-empty list of enabled
\* providers for every combination of use_imdb and use_trakt: exactly the
\* providers whose setting is true, and when both are false exactly IMDb,
\* with use_imdb switched on and a warning logged; the service goes on to
\* run.
C13_SourcesNeverEmpty ==
    [][pc = "boot" =>
          /\ rating_sources' # <<>>
          /\ Cardinality(Range(rating_sources')) = Len(rating_sources')
          /\ IF SwitchedOn(settings) = {}
             THEN /\ rating_sources' = <<"imdb">>
                  /\ settings' = [settings EXCEPT !.use_imdb = TRUE]
                  /\ log' = Append(log, Log("warning", NoItem, 0, 0))
             ELSE /\ Range(rating_sources') = SwitchedOn(settings)
                  /\ settings' = settings
                  /\ log' = log
          /\ pc' = "run"]_vars

C13_Witness ==
    /\ pc = "run"
    /\ rating_sources = <<"imdb">>
    /\ settings.use_imdb
    /\ ~settings.use_trakt
    /\ Tagged("warning", NoItem) # {}

\* the item of the list a request was issued for
Requested(i) == CHOOSE x \in Range(items) : ItemOf(x) = requests[i].item

\* C14: the Trakt client picks its endpoint from the kind of item and the
\* presence of season and episode numbers: the movie endpoint for a movie,
\* the episode-ratings endpoint for an episode whose season and episode
\* numbers are both present, whatever their values (season 0 included),
\* and the show endpoint otherwise.
C14_TraktEndpoint ==
    \A i \in 1 .. Len(requests) :
        requests[i].source = "trakt" =>
            requests[i].endpoint =
                IF requests[i].item[1] = "movie" THEN "movie"
                ELSE IF /\ Requested(i).season.kind = "num"
                        /\ Requested(i).episode.kind = "num"
                     THEN "episode"
                ELSE "show"

\* the episodes of the library that are in the list selected
SelectedEpisodes ==
    {e \in Range(library.episodes) :
        \E x \in Range(items) : x.episodeid = e.episodeid}

HasId(x) == x.uniqueid \notin {"", "notdict"}

\* the air date is a date and is no earlier than now - months-back * 30 days
AiredSince(e, t, months) ==
    /\ e.firstaired.kind = "num"
    /\ e.firstaired.v * TicksPerDay + months * 30 * TicksPerDay >= t

ShowHasId(e) ==
    \E i \in 1 .. Len(library.tvshows) :
        library.tvshows[i].tvshowid = e.tvshowid /\ HasId(library.tvshows[i])

\* C15: an episode the library returns is selected exactly when its air
\* date parses as YYYY-MM-DD and is >= now - (months-back * 30 days), it
\* carries an id of its own and its show carries an id; with a 24-month
\* window an episode aired 2020-01-01 is excluded at 2024-01-01 and
\* included at 2021-06-01.
C15_EpisodeSelected ==
    pc = "selected" =>
        /\ \A e \in Range(library.episodes) :
              e \in SelectedEpisodes <=>
                  /\ AiredSince(e, now, settings.tvshow_months_back)
                  /\ HasId(e)
                  /\ ShowHasId(e)
        /\ Len(items) = Cardinality(SelectedEpisodes)
        /\ \A e \in Range(library.episodes) :
              ( /\ settings.tvshow_months_back = 24
                /\ e.firstaired = Num(0) /\ HasId(e) /\ ShowHasId(e) ) =>
                  /\ now = 1461 * TicksPerDay => e \notin SelectedEpisodes
                  /\ now = 517 * TicksPerDay => e \in SelectedEpisodes

C15_Witness ==
    /\ pc = "selected"
    /\ settings.tvshow_months_back = 24
    /\ now = 517 * TicksPerDay
    /\ Len(library.episodes) = 2
    /\ library.episodes[1].firstaired = Num(0)
    /\ library.episodes[2].firstaired = Bad
    /\ Len(items) = 1
    /\ items[1].episodeid = 1

\* the release year is within the years-back window and the movie has an id
MovieQualifies(m) ==
    /\ m.year >= YearOf(now) - settings.movie_years_back
    /\ HasId(m)

MovieOf(item) == CHOOSE m \in Range(library.movies) : MovieItem(m) = item

\* list is the movies of the library that qualify, each once
ExactlyTheQualifying(list) ==
    /\ \A m \in Range(library.movies) :
          (\E x \in Range(list) : x.movieid = m.movieid) <=> MovieQualifies(m)
    /\ Len(list) = Cardinality({m \in Range(library.movies) : MovieQualifies(m)})

\* C16: a movie the library returns is selected exactly when its release
\* year is >= current year - years-back and it carries a non-empty IMDb
\* id (the list selected is empty when the library returns no movies);
\* every other movie gets no provider call and no update in the cycle.
C16_MovieSelected ==
    /\ [][(pc = "update_movies" /\ settings.update_movies) =>
              (items' = <<>> \/ ExactlyTheQualifying(items'))]_vars
    /\ [](\A i \in 1 .. Len(requests) :
              requests[i].item[1] = "movie" =>
                  MovieQualifies(MovieOf(requests[i].item)))
    /\ [](\A i \in 1 .. Len(commands) :
              commands[i].method = "VideoLibrary.SetMovieDetails" =>
                  MovieQualifies(MovieOf(commands[i].item)))

C16_Witness ==
    /\ pc = "update_tvshows"
    /\ Len(library.movies) = 2
    /\ library.movies[1].year = 2019
    /\ library.movies[2].year = 2021
    /\ Len(items) = 1
    /\ \E i \in 1 .. Len(commands) :
          commands[i].method = "VideoLibrary.SetMovieDetails"
              /\ commands[i].item = <<"movie", 2>>
    /\ \A i \in 1 .. Len(requests) : requests[i].item = <<"movie", 2>>

\* C17: re-running a cycle is safe: a second cycle, with the providers
\* answering as in the first and the library holding the first cycle's
\* updates, issues no update command for any item.
C17_RerunIssuesNoUpdate ==
    Tagged("restarted", NoItem) # {} =>
        \A i \in 1 .. Len(commands) : commands[i].method \notin SetMethods

\* the library answered the query with an empty string or with text that
\* is no JSON
QueryFailed(method) == Tagged("error", <<method, 0>>) # {}

Issued(method) == \E i \in 1 .. Len(commands) : commands[i].method = method

NothingDoneFor(kind, method) ==
    /\ \A i \in 1 .. Len(requests) : requests[i].item[1] # kind
    /\ ~Issued(method)

\* C18: an empty or malformed response to GetMovies, GetTVShows or
\* GetEpisodes makes that selection empty, so no provider call and no
\* update is made for that kind in the cycle, while the pass over the
\* other kind still runs and the cycle still completes.
C18_QueryFailureSkipsKind ==
    /\ QueryFailed("VideoLibrary.GetMovies") =>
          /\ NothingDoneFor("movie", "VideoLibrary.SetMovieDetails")
          /\ (Ended /\ settings.update_tvshows) => Issued("VideoLibrary.GetTVShows")
          /\ Ended => Tagged("completed", NoItem) # {}
    /\ (QueryFailed("VideoLibrary.GetTVShows")
            \/ QueryFailed("VideoLibrary.GetEpisodes")) =>
          /\ NothingDoneFor("episode", "VideoLibrary.SetEpisodeDetails")
          /\ settings.update_movies => Issued("VideoLibrary.GetMovies")
          /\ Ended => Tagged("completed", NoItem) # {}

\* the air date is absent, empty or no YYYY-MM-DD date
NoAirDate(e) == e.firstaired.kind # "num"

\* the library without the episodes that have no air date
WithoutUndated ==
    [library EXCEPT !.episodes =
        SelectSeq(library.episodes, LAMBDA e : ~NoAirDate(e))]

\* C19: an episode whose air date is missing or malformed is excluded, and
\* the selection goes on: the list selected is the one the same response
\* without the undated episodes gives.
C19_UndatedEpisodeExcluded ==
    pc = "selected" =>
        /\ \A e \in Range(library.episodes) :
              NoAirDate(e) => e \notin SelectedEpisodes
        /\ items = _get_tvshow_episodes(WithoutUndated, settings, now, "ok", "ok")
        /\ \A e \in Range(library.episodes) :
              ( /\ ~NoAirDate(e)
                /\ AiredSince(e, now, settings.tvshow_months_back)
                /\ HasId(e) /\ ShowHasId(e) ) => e \in SelectedEpisodes

C19_Witness ==
    /\ pc = "selected"
    /\ Len(library.episodes) = 2
    /\ library.episodes[1].firstaired = Bad
    /\ library.episodes[2].firstaired = Num(700)
    /\ Len(items) = 1
    /\ items[1].episodeid = 2

Skipped == Tagged("skipping", NoItem) # {}

\* C21: when the scheduler finds the update not due, the run performs no
\* library query, no provider request and no library update, and leaves
\* last_completion and every stored rating unchanged.
C21_SkippedRunDoesNothing ==
    /\ [](Skipped =>
              /\ pc = "stopped"
              /\ commands = <<>>
              /\ requests = <<>>
              /\ Tagged("completed", NoItem) = {})
    /\ [][(pc = "boot" \/ pc = "run") =>
              /\ commands' = <<>>
              /\ requests' = <<>>
              /\ library' = library
              /\ settings'.last_completion = settings.last_completion]_vars
    /\ [][(pc = "run" /\ ~should_run_update(settings, now)) =>
              /\ pc' = "stopped"
              /\ log' = Append(log, Log("skipping", NoItem, 0, 0))]_vars

C21_Witness ==
    /\ Skipped
    /\ pc = "stopped"
    /\ settings.update_movies
    /\ settings.update_tvshows
    /\ Len(library.movies) = 1
    /\ Len(library.episodes) = 1
    /\ settings.last_completion = isoformat(StartTime - TicksPerDay + 1)

\* the time is less than the interval after the completion recorded
TooEarly ==
    /\ settings.last_completion.kind = "iso"
    /\ now < settings.last_completion.t + settings.update_interval * TicksPerDay

InCycle == pc \in {"update_movies", "movies", "update_tvshows", "episodes", "save"}

\* C22: with an interval of at least one day and a last_completion written
\* by save_completion_time, a run started less than the interval after the
\* completion recorded is skipped: no cycle is under way at such a time.
C22_IntervalRespected ==
    /\ [](InCycle => ~TooEarly)
    /\ []((Started /\ pc = "run") => ~TooEarly)
    /\ [][(pc = "run" /\ TooEarly) =>
              /\ pc' = "stopped"
              /\ log' = Append(log, Log("skipping", NoItem, 0, 0))]_vars

C22_Witness ==
    /\ pc = "stopped"
    /\ Skipped
    /\ settings.update_interval = 1
    /\ settings.last_completion = isoformat(StartTime + TicksPerDay + 1)
    /\ now = StartTime + 2 * TicksPerDay

\* the rating, in tenths, of every update command issued
Written ==
    {commands[i].rating :
        i \in {j \in 1 .. Len(commands) : commands[j].method \in SetMethods}}

\* the rating sources without those that returned -1, -1
WithoutSentinels ==
    SelectSeq(rating_sources, LAMBDA s : responses[s].kind = "ok")

\* C23: every rating written to the library is strictly positive and lies
\* between the smallest and the largest rating, each rounded to one
\* decimal, of the samples that contributed to it; the sentinel -1, -1 is
\* never written and never changes an aggregate.
C23_WrittenWithinSamples ==
    /\ \A r \in Written :
          /\ r > 0
          /\ r # Round1(NoData.rating, 100)
          /\ result = Some(r)
          /\ \E lo \in Passing : Round1(responses[lo].rating, 100) <= r
          /\ \E hi \in Passing : r <= Round1(responses[hi].rating, 100)
    /\ (idx > 1 /\ idx <= Len(items) + 1 /\ Fetched_for(ItemOf(items[idx - 1]))) =>
          result = _fetch_rating(WithoutSentinels, AMovie, responses,
                                 ZeroLatency, NoCalls, now).value

C23_Witness ==
    /\ idx = 2
    /\ rating_sources = <<"imdb", "trakt">>
    /\ responses["imdb"] = Failure("nodata")
    /\ responses["trakt"] = Sample(790, 100)
    /\ Written = {79}
    /\ CurrentRating(items[1]) = Num(790)

\* the update of the item was answered with an empty or unparseable
\* response: a command was issued and the library holds what it held
NotApplied(x) == Updates(ItemOf(x)) # {} /\ CurrentRating(x) = x.rating

\* C24: within a cycle an UPDATE_RESULT entry is logged for an item exactly
\* when an update command was issued for that item, at most once per item
\* and after the command; it is logged also when the library answered the
\* update with an empty or unparseable response.
C24_ResultLoggedIffUpdated ==
    /\ [](\A i \in 1 .. Len(items) :
            /\ (Tagged("UPDATE_RESULT", ItemOf(items[i])) # {})
                   <=> (Updates(ItemOf(items[i])) # {})
            /\ Cardinality(Tagged("UPDATE_RESULT", ItemOf(items[i]))) <= 1
            /\ NotApplied(items[i]) =>
                   Tagged("UPDATE_RESULT", ItemOf(items[i])) # {})
    /\ [][\A i \in 1 .. Len(items) :
             Tagged("UPDATE_RESULT", ItemOf(items[i])) = {} =>
                \/ log' = log
                \/ log'[Len(log')].tag # "UPDATE_RESULT"
                \/ log'[Len(log')].item # ItemOf(items[i])
                \/ commands'[Len(commands')].item = ItemOf(items[i])]_vars

====
